---- MODULE Spec2Model ----
(***************************************************************************)
(* Model of the package installer of embassy-os                           *)
(* (appmgr/src/install_new/mod.rs): download_install_s9pk and             *)
(* install_s9pk, with the content cache, the progress handle, the package *)
(* database (entry, IP pool, broken_packages) and the public directory;   *)
(* and of the boot-time reconciliation of startos                         *)
(* (core/startos/src/context/rpc.rs): RpcContext::cleanup_and_initialize, *)
(* with the continuation map and the shutdown of the RpcContext; of the   *)
(* error handlers of two concurrent installs; and of HealthCheck::check   *)
(* (appmgr/src/status/health_check.rs).                                   *)
(***************************************************************************)
EXTENDS Integers, Sequences, FiniteSets, TLC

\* ------------------------------------------------------------------ bounds
MaxInstalls == 2
ArchiveLen == 2
NumHashes == 2

\* --------------------------------------------------------------- constants
PKG == "hello"
Hashes == 1 .. NumHashes
NoHeader == 0

\* An error value of crate::Error: its kind and its message.
Err(kind, msg) == [kind |-> kind, msg |-> msg]
NoRes == Err("None", "")
Ok == Err("Ok", "")
Panic == Err("Panic", "not yet implemented")
IsErr(r) == r.kind \notin {"None", "Ok", "Panic"}

\* ----------------------------------------------------------------- archive
\* An archive is ArchiveLen chunks: chunk 1 is the header (declared hash) and
\* the table of contents (which says whether there are instructions), the
\* other chunks are the canonical byte range, of content `body`.
Archives == [hash : Hashes, body : Hashes, instr : BOOLEAN]
NoArchive == [hash |-> 0, body |-> 0, instr |-> FALSE]
NoFile == [exists |-> FALSE, hash |-> 0, body |-> 0, instr |-> FALSE, len |-> 0]
\* The file holding the first k chunks of archive a.
Prefix(a, k) ==
  [exists |-> TRUE,
   hash |-> IF k >= 1 THEN a.hash ELSE 0,
   body |-> IF k >= 2 THEN a.body ELSE 0,
   instr |-> IF k >= 1 THEN a.instr ELSE FALSE,
   len |-> k]
EmptyFile == [exists |-> TRUE, hash |-> 0, body |-> 0, instr |-> FALSE, len |-> 0]

\* S9pkReader::from_reader: parses header and table of contents.
from_reader(f) == f.exists /\ f.len >= 1
\* S9pkReader::hash_str: the declared hash.
hash_str(f) == f.hash
\* S9pkReader::validate: the hash of the canonical byte range is the declared one.
validate(f) == f.exists /\ f.len = ArchiveLen /\ f.body = f.hash

\* String::from_utf8(res.stderr).unwrap_or_else(..): the message of the
\* Docker error built from the captured stderr.
Stderrs == {[utf8 |-> TRUE, text |-> "no such image"],
            [utf8 |-> FALSE, text |-> "<ff fe>"]}
stderr_msg(s) == IF s.utf8 THEN s.text ELSE "Could not parse stderr"

\* ---------------------------------------------------------------- progress
\* s9pk.content_length(): the response declares the length of the archive.
content_length == ArchiveLen
\* InstallProgress::new(size)
NewProgress(size) ==
  [size |-> size, downloaded |-> 0, read |-> 0, validated |-> 0,
   download_complete |-> FALSE, read_complete |-> FALSE]

VARIABLES
  pc,               \* position of the installer task
  installs,         \* number of calls of download_install_s9pk so far
  phase,            \* the last step of the pipeline that was entered
  hdr,              \* x-s9pk-hash header of the response (NoHeader: absent)
  src,              \* the archive the response body has delivered so far
  body_read,        \* chunks read from the response body
  cache,            \* the cache file <cache>/<pkg>/<version>/<pkg>.s9pk
  cache_at_start,   \* the cache file when the call began
  cached,           \* result of check_cache: "unset", "hit", "miss"
  probe_failure,    \* failure warn_ok has just logged: "none", "open", "parse"
  progress,         \* the InstallProgress handle
  entry,            \* committed package_data[pkg]: "Absent", "Installing", "Installed"
  ip_pool,          \* committed resources.ip_pool: number of allocated addresses
  broken_packages,  \* committed broken_packages list
  tx,               \* the open transaction of install_s9pk
  pre_tx,           \* entry and pool when the transaction began
  tx_began,         \* db.begin() was called in this install
  pool_mut,         \* the get_mut view of the pool
  broken_mut,       \* the get_mut view of broken_packages
  public_dir,       \* files of <public>/<pkg>/<version>/
  written,          \* files this install wrote to the public directory
  images_loaded,    \* the container runtime has the images
  loader,           \* outcome of docker load: "none", "ok", "nonzero", "io"
  loader_stderr,    \* stderr captured from docker load
  res,              \* `res` of download_install_s9pk: outcome of the pipeline
  result            \* value returned by download_install_s9pk

installVars == <<pc, installs, phase, hdr, src, body_read, cache,
                 cache_at_start, cached, probe_failure, progress, entry,
                 ip_pool, broken_packages, tx, pre_tx, tx_began, pool_mut,
                 broken_mut, public_dir, written, images_loaded, loader,
                 loader_stderr, res, result>>

VARIABLES
  rpc,              \* position of cleanup_and_initialize
  runs,             \* number of calls of cleanup_and_initialize so far
  package_data,     \* the package entries of the database, by package id
  tmp_dirs,         \* package ids that have a *.tmp volume directory on disk
  peek,             \* the snapshot `peek` of the database
  todo,             \* package ids the sweep loop has still to visit
  handled,          \* what the sweep of this call did to each package id
  failed,           \* package ids whose sweep action failed in this call
  steps,            \* steps of this call that have run to their end
  managers,         \* managers.init has set up the supervisors
  rres,             \* value returned by cleanup_and_initialize
  db_start,         \* package_data when this call began
  db_first          \* package_data at the first successful return

reconcileVars == <<rpc, runs, package_data, tmp_dirs, peek, todo, handled,
                   failed, steps, managers, rres, db_start, db_first>>

VARIABLES
  continuations,    \* rpc_stream_continuations: guid -> continuation
  calls,            \* number of calls made on the context so far
  tasks,            \* the tasks that hold a clone of the context
  handed,           \* the continuations that were handed out to a caller
  is_closed,        \* RpcContextSeed.is_closed
  store_closed,     \* the secret store has been closed
  ctx_managers,     \* the manager map: "running", "empty"
  unstable          \* the build has the feature "unstable"

contextVars == <<continuations, calls, tasks, handed, is_closed, store_closed,
                 ctx_managers, unstable>>

VARIABLES
  race_tasks,       \* the installer task of each package
  race_broken,      \* committed broken_packages list
  race_lock,        \* holder of the write lock on broken_packages
  race_locking      \* get_mut keeps a write lock in the handle

raceVars == <<race_tasks, race_broken, race_lock, race_locking>>

VARIABLES
  health_checks,    \* number of calls of HealthCheck::check so far
  health_res,       \* what execute(..).await gave in the last call
  health_ret        \* value returned by the last call

healthVars == <<health_checks, health_res, health_ret>>

vars == <<installVars, reconcileVars, contextVars, raceVars, healthVars>>

\* The variables the installer, the reconciler, the context operations, the
\* concurrent error handlers and the health check leave alone.
otherThanInstall == <<reconcileVars, contextVars, raceVars, healthVars>>
otherThanReconcile == <<installVars, contextVars, raceVars, healthVars>>
otherThanContext == <<installVars, reconcileVars, raceVars, healthVars>>
otherThanRace == <<installVars, reconcileVars, contextVars, healthVars>>
otherThanHealth == <<installVars, reconcileVars, contextVars, raceVars>>

respVars == <<installs, hdr, src, cache_at_start>>
probeVars == <<cached, probe_failure>>
dbVars == <<entry, ip_pool, broken_packages>>
txVars == <<pre_tx, tx_began, pool_mut>>
fsVars == <<public_dir, written>>
loadVars == <<images_loaded, loader, loader_stderr>>

NoTx == [open |-> FALSE, entry |-> "Absent", ip_pool |-> 0]
NoStderr == [utf8 |-> TRUE, text |-> ""]

InstallerInit ==
  /\ pc = "idle"
  /\ installs = 0
  /\ phase = "idle"
  /\ hdr = NoHeader
  /\ src = NoArchive
  /\ body_read = 0
  /\ cache = NoFile
  /\ cache_at_start = NoFile
  /\ cached = "unset"
  /\ probe_failure = "none"
  /\ progress = NewProgress(0)
  /\ entry = "Absent"
  /\ ip_pool = 0
  /\ broken_packages = <<>>
  /\ tx = NoTx
  /\ pre_tx = NoTx
  /\ tx_began = FALSE
  /\ pool_mut = 0
  /\ broken_mut = <<>>
  /\ public_dir = {}
  /\ written = {}
  /\ images_loaded = FALSE
  /\ loader = "none"
  /\ loader_stderr = NoStderr
  /\ res = NoRes
  /\ result = NoRes

\* ------------------------------------------------------------ cache probe
\* File::maybe_open: Err on an I/O failure, Ok(None) when there is no file.
maybe_open(f, open_ok) == [ok |-> open_ok, val |-> f]
\* warn_ok that hands the value on although the result is an Err.
warn_ok_keeps(r) == [some |-> TRUE, val |-> r.val]
\* warn_ok: Ok(a) is Some(a), Err(e) is logged and is None.
warn_ok(r) == [some |-> r.ok, val |-> r.val]
\* check_cache that trusts the cache file when the response has no header.
check_cache_trusts(h, f, open_ok, read_ok) ==
  LET file == warn_ok(maybe_open(f, open_ok)) IN
  IF ~file.some \/ ~file.val.exists THEN FALSE
  ELSE LET rdr == warn_ok([ok |-> read_ok /\ from_reader(file.val),
                           val |-> file.val]) IN
       IF ~rdr.some THEN FALSE
       ELSE h = NoHeader \/ h = hash_str(rdr.val)
\* check_cache that does not compare the declared hash with the header.
check_cache_any_hash(h, f, open_ok, read_ok) ==
  IF h = NoHeader THEN FALSE
  ELSE LET file == warn_ok(maybe_open(f, open_ok)) IN
       IF ~file.some \/ ~file.val.exists THEN FALSE
       ELSE warn_ok([ok |-> read_ok /\ from_reader(file.val),
                     val |-> file.val]).some
\* check_cache: TRUE when it returns Some(rdr), a reader over the cache file.
check_cache(h, f, open_ok, read_ok) ==
  IF h = NoHeader THEN FALSE
  ELSE LET file == warn_ok(maybe_open(f, open_ok)) IN
       IF ~file.some \/ ~file.val.exists THEN FALSE
       ELSE LET rdr == warn_ok([ok |-> read_ok /\ from_reader(file.val),
                                val |-> file.val]) IN
            IF ~rdr.some THEN FALSE
            ELSE h = hash_str(rdr.val)
\* The branch that replaces the cache file whatever the probe returned.
after_probe_replaces(hit) == "delete"
\* `if let Some(cached) = cached { cached } else { File::delete ...`
after_probe(hit) == IF hit THEN "validate" ELSE "delete"

\* ----------------------------------------------------------------- control
Goto(p) == pc' = p /\ phase' = p
\* A `?` inside the closure or inside install_s9pk: the error becomes `res`,
\* the transaction (if any) is dropped without commit.
Fail(e) ==
  /\ res' = e
  /\ tx' = NoTx
  /\ pc' = "broken_get"
  /\ UNCHANGED phase
Range(q) == {q[i] : i \in 1 .. Len(q)}

\* The caller inserts the Installing entry (or has not) and calls
\* download_install_s9pk with a response.
Install ==
  /\ pc \in {"idle", "done"}
  /\ installs < MaxInstalls
  /\ installs' = installs + 1
  /\ \E h \in {NoHeader} \cup Hashes, ins \in BOOLEAN :
       /\ hdr' = h
       /\ entry' = IF ins THEN "Installing" ELSE entry
  /\ src' = NoArchive
  /\ body_read' = 0
  /\ cache_at_start' = cache
  /\ cached' = "unset"
  /\ probe_failure' = "none"
  /\ progress' = NewProgress(0)
  /\ tx' = NoTx
  /\ pre_tx' = NoTx
  /\ tx_began' = FALSE
  /\ pool_mut' = 0
  /\ broken_mut' = <<>>
  /\ written' = {}
  /\ loader' = "none"
  /\ loader_stderr' = NoStderr
  /\ res' = NoRes
  /\ result' = NoRes
  /\ Goto("create_dir")
  /\ UNCHANGED <<cache, ip_pool, broken_packages, public_dir, images_loaded>>
  /\ UNCHANGED otherThanInstall

\* tokio::fs::create_dir_all(&pkg_cache_dir).await?  -- outside the closure
CreateCacheDir ==
  /\ pc = "create_dir"
  /\ \E ok \in BOOLEAN :
       IF ok
       THEN /\ progress' = NewProgress(content_length)
            /\ Goto("check_cache")
            /\ UNCHANGED result
       ELSE /\ result' = Err("Io", "create_dir_all")
            /\ pc' = "done"
            /\ UNCHANGED <<progress, phase>>
  /\ UNCHANGED <<respVars, probeVars, dbVars, txVars, fsVars, loadVars,
                 body_read, cache, tx, broken_mut, res>>
  /\ UNCHANGED otherThanInstall

CheckCache ==
  /\ pc = "check_cache"
  /\ \E open_ok \in BOOLEAN, read_ok \in BOOLEAN :
       LET hit == check_cache(hdr, cache, open_ok, read_ok)
           parsed == hdr # NoHeader /\ open_ok /\ read_ok /\ from_reader(cache)
       IN /\ cached' = IF hit THEN "hit" ELSE "miss"
          /\ probe_failure' =
               IF hdr = NoHeader THEN "none"
               ELSE IF ~open_ok THEN "open"
               ELSE IF cache.exists /\ ~parsed THEN "parse"
               ELSE "none"
          /\ progress' = [progress EXCEPT !.read = @ + (IF parsed THEN 1 ELSE 0)]
          /\ Goto(after_probe(hit))
  /\ UNCHANGED <<respVars, dbVars, txVars, fsVars, loadVars, body_read, cache,
                 tx, broken_mut, res, result>>
  /\ UNCHANGED otherThanInstall

\* File::delete(&pkg_cache).await?
DeleteCache ==
  /\ pc = "delete"
  /\ probe_failure' = "none"
  /\ \E ok \in BOOLEAN :
       IF ok
       THEN /\ cache' = NoFile
            /\ Goto("open_dst")
            /\ UNCHANGED <<res, tx>>
       ELSE /\ Fail(Err("Io", "delete cache file"))
            /\ UNCHANGED cache
  /\ UNCHANGED <<respVars, cached, dbVars, txVars, fsVars, loadVars,
                 body_read, progress, broken_mut, result>>
  /\ UNCHANGED otherThanInstall

\* OpenOptions::new().create(true).write(true).read(true).open(&pkg_cache)
OpenDst ==
  /\ pc = "open_dst"
  /\ \E ok \in BOOLEAN :
       IF ok
       THEN /\ cache' = EmptyFile
            /\ Goto("download")
            /\ UNCHANGED <<res, tx>>
       ELSE /\ Fail(Err("Io", "open cache file"))
            /\ UNCHANGED cache
  /\ UNCHANGED <<respVars, probeVars, dbVars, txVars, fsVars, loadVars,
                 body_read, progress, broken_mut, result>>
  /\ UNCHANGED otherThanInstall

\* The transport errors of the body stream, as mapped to io::ErrorKind.
TransportErrors == {"ConnectionRefused", "TimedOut", "Other"}

\* The next chunk of the response body, after the chunks of archive a: chunk 1
\* brings the header and the table of contents, chunk 2 the content.
NextChunk(a, k) ==
  IF k = 0 THEN {[a EXCEPT !.hash = h, !.instr = i] : h \in Hashes, i \in BOOLEAN}
  ELSE IF k = 1 THEN {[a EXCEPT !.body = b] : b \in Hashes}
  ELSE {a}

\* tokio::io::copy of the body stream into the progress writer, one chunk.
DownloadChunk ==
  /\ pc = "download"
  /\ body_read < ArchiveLen
  /\ \/ /\ \E a \in NextChunk(src, body_read) :
             /\ src' = a
             /\ cache' = Prefix(a, body_read + 1)
        /\ body_read' = body_read + 1
        /\ progress' = [progress EXCEPT !.downloaded = @ + 1]
        /\ UNCHANGED <<pc, phase, res, tx>>
     \/ /\ \E k \in TransportErrors : Fail(Err("Network", k))
        /\ UNCHANGED <<src, body_read, cache, progress>>
  /\ UNCHANGED <<installs, hdr, cache_at_start, probeVars,
                 dbVars, txVars, fsVars, loadVars, broken_mut, result>>
  /\ UNCHANGED otherThanInstall

\* End of the body: progress.download_complete()
DownloadComplete ==
  /\ pc = "download"
  /\ body_read = ArchiveLen
  /\ progress' = [progress EXCEPT !.download_complete = TRUE]
  /\ Goto("seek_parse")
  /\ UNCHANGED <<respVars, probeVars, dbVars, txVars, fsVars, loadVars,
                 body_read, cache, tx, broken_mut, res, result>>
  /\ UNCHANGED otherThanInstall

\* dst.seek(Start(0)) and S9pkReader::from_reader under track_read_during
SeekParse ==
  /\ pc = "seek_parse"
  /\ \E ok \in BOOLEAN :
       IF ~ok
       THEN /\ Fail(Err("Io", "read cache file"))
            /\ UNCHANGED progress
       ELSE IF ~from_reader(cache)
       THEN /\ Fail(Err("InvalidArchive", "header"))
            /\ UNCHANGED progress
       ELSE /\ progress' = [progress EXCEPT !.read = @ + 1]
            /\ Goto("validate")
            /\ UNCHANGED <<res, tx>>
  /\ UNCHANGED <<respVars, probeVars, dbVars, txVars, fsVars, loadVars,
                 body_read, cache, broken_mut, result>>
  /\ UNCHANGED otherThanInstall

\* ------------------------------------------------------------ install_s9pk
\* A validate() whose result is dropped: the pipeline goes on after a mismatch.
ValidateUnchecked ==
  /\ pc = "validate"
  /\ progress' = [progress EXCEPT !.read = @ + cache.len,
                                  !.validated = IF validate(cache) THEN cache.len
                                                ELSE @]
  /\ Goto("check_entry")
  /\ UNCHANGED <<respVars, probeVars, dbVars, txVars, fsVars, loadVars,
                 body_read, cache, broken_mut, result, res, tx>>
  /\ UNCHANGED otherThanInstall

\* rdr.validate().await?; rdr.validated();
Validate ==
  /\ pc = "validate"
  /\ \E ok \in BOOLEAN :
       IF ~ok
       THEN /\ Fail(Err("Io", "validate"))
            /\ UNCHANGED progress
       ELSE IF ~validate(cache)
       THEN /\ Fail(Err("HashMismatch", "validate"))
            /\ progress' = [progress EXCEPT !.read = @ + cache.len]
       ELSE /\ progress' = [progress EXCEPT !.read = @ + cache.len,
                                            !.validated = cache.len]
            /\ Goto("check_entry")
            /\ UNCHANGED <<res, tx>>
  /\ UNCHANGED <<respVars, probeVars, dbVars, txVars, fsVars, loadVars,
                 body_read, cache, broken_mut, result>>
  /\ UNCHANGED otherThanInstall

\* A check whose None is not turned into an error.
CheckEntryUnchecked ==
  /\ pc = "check_entry"
  /\ \E ok \in BOOLEAN :
       IF ~ok
       THEN Fail(Err("Database", "check"))
       ELSE Goto("manifest") /\ UNCHANGED <<res, tx>>
  /\ UNCHANGED <<respVars, probeVars, dbVars, txVars, fsVars, loadVars,
                 body_read, cache, progress, broken_mut, result>>
  /\ UNCHANGED otherThanInstall

\* option_model.clone().check(db).await?.ok_or_else(..)?
CheckEntry ==
  /\ pc = "check_entry"
  /\ \E ok \in BOOLEAN :
       IF ~ok
       THEN Fail(Err("Database", "check"))
       ELSE IF entry = "Absent"
       THEN Fail(Err("Database", "PackageDataEntry does not exist"))
       ELSE Goto("manifest") /\ UNCHANGED <<res, tx>>
  /\ UNCHANGED <<respVars, probeVars, dbVars, txVars, fsVars, loadVars,
                 body_read, cache, progress, broken_mut, result>>
  /\ UNCHANGED otherThanInstall

\* track_read_during(.., || rdr.manifest()).await?
UnpackManifest ==
  /\ pc = "manifest"
  /\ \E ok \in BOOLEAN :
       IF ok
       THEN /\ progress' = [progress EXCEPT !.read = @ + 1]
            /\ Goto("public_dir")
            /\ UNCHANGED <<res, tx>>
       ELSE /\ Fail(Err("Io", "manifest"))
            /\ UNCHANGED progress
  /\ UNCHANGED <<respVars, probeVars, dbVars, txVars, fsVars, loadVars,
                 body_read, cache, broken_mut, result>>
  /\ UNCHANGED otherThanInstall

\* tokio::fs::create_dir_all(&public_dir_path).await?
CreatePublicDir ==
  /\ pc = "public_dir"
  /\ \E ok \in BOOLEAN :
       IF ok
       THEN /\ public_dir' = public_dir \cup {"."}
            /\ written' = written \cup {"."}
            /\ Goto("license")
            /\ UNCHANGED <<res, tx>>
       ELSE /\ Fail(Err("Io", "create public dir"))
            /\ UNCHANGED fsVars
  /\ UNCHANGED <<respVars, probeVars, dbVars, txVars, loadVars, body_read,
                 cache, progress, broken_mut, result>>
  /\ UNCHANGED otherThanInstall

\* Copy of one section of the archive to a file of the public directory.
Unpack(name, next) ==
  \E ok \in BOOLEAN :
    IF ok
    THEN /\ public_dir' = public_dir \cup {name}
         /\ written' = written \cup {name}
         /\ progress' = [progress EXCEPT !.read = @ + 1]
         /\ Goto(next)
         /\ UNCHANGED <<res, tx>>
    ELSE /\ Fail(Err("Io", name))
         /\ UNCHANGED <<fsVars, progress>>

UnpackLicense ==
  /\ pc = "license"
  /\ Unpack("LICENSE.md", "icon")
  /\ UNCHANGED <<respVars, probeVars, dbVars, txVars, loadVars, body_read,
                 cache, broken_mut, result>>
  /\ UNCHANGED otherThanInstall

UnpackIcon ==
  /\ pc = "icon"
  /\ Unpack("icon.png", "images")
  /\ UNCHANGED <<respVars, probeVars, dbVars, txVars, loadVars, body_read,
                 cache, broken_mut, result>>
  /\ UNCHANGED otherThanInstall

\* The exit status of the loader is not looked at.
load_result_ignores_status(status_ok, s) == Ok
\* if !res.status.success() { Err(Error::new(anyhow!("{}", ..stderr..), Docker)) }
load_result(status_ok, s) ==
  IF ~status_ok THEN Err("Docker", stderr_msg(s)) ELSE Ok

\* `docker load` fed with rdr.docker_images()
LoadImages ==
  /\ pc = "images"
  /\ \/ /\ loader' = "io"
        /\ Fail(Err("Io", "docker load"))
        /\ UNCHANGED <<images_loaded, progress, loader_stderr>>
     \/ \E status_ok \in BOOLEAN, s \in Stderrs :
          LET r == load_result(status_ok, s) IN
          /\ loader' = IF status_ok THEN "ok" ELSE "nonzero"
          /\ loader_stderr' = IF status_ok THEN NoStderr ELSE s
          /\ progress' = [progress EXCEPT !.read = @ + 1]
          /\ IF r = Ok
             THEN /\ images_loaded' = TRUE
                  /\ Goto("instructions")
                  /\ UNCHANGED <<res, tx>>
             ELSE /\ Fail(r)
                  /\ UNCHANGED images_loaded
  /\ UNCHANGED <<respVars, probeVars, dbVars, txVars, fsVars, body_read,
                 cache, broken_mut, result>>
  /\ UNCHANGED otherThanInstall

\* rdr.instructions(): the optional section; then read_complete.store(true)
UnpackInstructions ==
  /\ pc = "instructions"
  /\ \E ok \in BOOLEAN :
       IF ~ok
       THEN /\ Fail(Err("Io", "INSTRUCTIONS.md"))
            /\ UNCHANGED <<fsVars, progress>>
       ELSE /\ public_dir' = IF cache.instr THEN public_dir \cup {"INSTRUCTIONS.md"}
                             ELSE public_dir
            /\ written' = IF cache.instr THEN written \cup {"INSTRUCTIONS.md"}
                          ELSE written
            /\ progress' = [progress EXCEPT
                              !.read = @ + (IF cache.instr THEN 1 ELSE 0),
                              !.read_complete = TRUE]
            /\ Goto("begin")
            /\ UNCHANGED <<res, tx>>
  /\ UNCHANGED <<respVars, probeVars, dbVars, txVars, loadVars, body_read,
                 cache, broken_mut, result>>
  /\ UNCHANGED otherThanInstall

\* ------------------------------------------------- the attach transaction
\* let mut tx = db.begin().await?
BeginTx ==
  /\ pc = "begin"
  /\ \E ok \in BOOLEAN :
       IF ok
       THEN /\ tx' = [open |-> TRUE, entry |-> entry, ip_pool |-> ip_pool]
            /\ pre_tx' = [open |-> TRUE, entry |-> entry, ip_pool |-> ip_pool]
            /\ tx_began' = TRUE
            /\ Goto("put_installing")
            /\ UNCHANGED res
       ELSE /\ Fail(Err("Database", "begin"))
            /\ UNCHANGED <<pre_tx, tx_began>>
  /\ UNCHANGED <<respVars, probeVars, dbVars, fsVars, loadVars, body_read,
                 cache, progress, pool_mut, broken_mut, result>>
  /\ UNCHANGED otherThanInstall

\* model.put(&mut tx, &PackageDataEntry::Installing { .. }).await?
PutInstalling ==
  /\ pc = "put_installing"
  /\ \E ok \in BOOLEAN :
       IF ok
       THEN /\ tx' = [tx EXCEPT !.entry = "Installing"]
            /\ Goto("main_install")
            /\ UNCHANGED res
       ELSE Fail(Err("Database", "put Installing"))
  /\ UNCHANGED <<respVars, probeVars, dbVars, txVars, fsVars, loadVars,
                 body_read, cache, progress, broken_mut, result>>
  /\ UNCHANGED otherThanInstall

\* ip_pool().get_mut(&mut tx).await?; manifest.main.install(.., &mut *ip_pool)
MainInstall ==
  /\ pc = "main_install"
  /\ \E outcome \in {"ok", "get_mut", "install"} :
       IF outcome = "ok"
       THEN /\ pool_mut' = tx.ip_pool + 1
            /\ Goto("save_pool")
            /\ UNCHANGED <<res, tx>>
       ELSE /\ Fail(Err(IF outcome = "get_mut" THEN "Database" ELSE "Network",
                        IF outcome = "get_mut" THEN "ip_pool get_mut"
                        ELSE "main.install"))
            /\ UNCHANGED pool_mut
  /\ UNCHANGED <<respVars, probeVars, dbVars, pre_tx, tx_began, fsVars,
                 loadVars, body_read, cache, progress, broken_mut, result>>
  /\ UNCHANGED otherThanInstall

\* A save of the pool that writes the committed document, not the transaction.
SavePoolCommitted ==
  /\ pc = "save_pool"
  /\ \E ok \in BOOLEAN :
       IF ok
       THEN /\ ip_pool' = pool_mut
            /\ Goto("interfaces")
            /\ UNCHANGED <<res, tx>>
       ELSE Fail(Err("Database", "ip_pool save")) /\ UNCHANGED ip_pool
  /\ UNCHANGED <<respVars, probeVars, entry, broken_packages, txVars, fsVars,
                 loadVars, body_read, cache, progress, broken_mut, result>>
  /\ UNCHANGED otherThanInstall

\* ip_pool.save(&mut tx).await?
SavePool ==
  /\ pc = "save_pool"
  /\ \E ok \in BOOLEAN :
       IF ok
       THEN /\ tx' = [tx EXCEPT !.ip_pool = pool_mut]
            /\ Goto("interfaces")
            /\ UNCHANGED res
       ELSE Fail(Err("Database", "ip_pool save"))
  /\ UNCHANGED <<respVars, probeVars, dbVars, txVars, fsVars, loadVars,
                 body_read, cache, progress, broken_mut, result>>
  /\ UNCHANGED otherThanInstall

\* manifest.interfaces.install(&ip).await?
InterfacesInstall ==
  /\ pc = "interfaces"
  /\ \E ok \in BOOLEAN :
       IF ok
       THEN Goto("put_installed") /\ UNCHANGED <<res, tx>>
       ELSE Fail(Err("Network", "interfaces.install"))
  /\ UNCHANGED <<respVars, probeVars, dbVars, txVars, fsVars, loadVars,
                 body_read, cache, progress, broken_mut, result>>
  /\ UNCHANGED otherThanInstall

\* model.put(&mut tx, &PackageDataEntry::Installed { installed: todo!() }):
\* todo!() panics while the argument of put is built, so neither the put nor
\* tx.commit(None) nor Ok(()) is reached; the transaction is dropped by the
\* unwinding and the task ends without a return value.
PutInstalled ==
  /\ pc = "put_installed"
  /\ tx' = NoTx
  /\ result' = Panic
  /\ pc' = "done"
  /\ UNCHANGED <<respVars, probeVars, dbVars, txVars, fsVars, loadVars, phase,
                 body_read, cache, progress, broken_mut, res>>
  /\ UNCHANGED otherThanInstall

\* ------------------------------------------------------- broken_packages
\* if let Err(e) = res { broken_packages().get_mut(&mut db).await?
BrokenGet ==
  /\ pc = "broken_get"
  /\ \E ok \in BOOLEAN :
       IF ok
       THEN /\ broken_mut' = broken_packages
            /\ pc' = "broken_save"
            /\ UNCHANGED result
       ELSE /\ result' = Err("Database", "broken_packages get_mut")
            /\ pc' = "done"
            /\ UNCHANGED broken_mut
  /\ UNCHANGED <<respVars, probeVars, dbVars, txVars, fsVars, loadVars, phase,
                 body_read, cache, progress, tx, res>>
  /\ UNCHANGED otherThanInstall

\* broken.push(pkg_id.clone()); broken.save(&mut db).await?; Err(e)
BrokenSave ==
  /\ pc = "broken_save"
  /\ \E ok \in BOOLEAN :
       IF ok
       THEN /\ broken_mut' = Append(broken_mut, PKG)
            /\ broken_packages' = Append(broken_mut, PKG)
            /\ result' = res
       ELSE /\ broken_mut' = Append(broken_mut, PKG)
            /\ result' = Err("Database", "broken_packages save")
            /\ UNCHANGED broken_packages
  /\ pc' = "done"
  /\ UNCHANGED <<respVars, probeVars, entry, ip_pool, txVars, fsVars, loadVars,
                 phase, body_read, cache, progress, tx, res>>
  /\ UNCHANGED otherThanInstall

\* ===================================================== reconciliation
\* ------------------------------------------------------------------ bounds
MaxRuns == 2
NumInfo == 2

\* The package ids of the database, in the order of the BTreeMap.
PackageIds == {"bitcoind", "lnd"}
PkgOrder == <<"bitcoind", "lnd">>
\* A map from package id to dependency info; 0: the id is not in the map.
NoDeps == [p \in PackageIds |-> 0]
DepMaps(p) == {f \in [PackageIds -> 0 .. NumInfo] : f[p] = 0}
MainStatuses == {"Stopped", "Starting", "Running"}
Transitional == {"Installing", "Updating", "Restoring"}

\* PackageDataEntry: the lifecycle tag and, for the tags that have them,
\* current_dependencies, current_dependents, status.main and
\* status.dependency_config_errors.
AbsentEntry ==
  [tag |-> "Absent", deps |-> NoDeps, dependents |-> NoDeps,
   main |-> "Stopped", errs |-> {}]
EntriesOf(p) ==
  {AbsentEntry}
    \cup {[AbsentEntry EXCEPT !.tag = t] : t \in Transitional}
    \cup {[AbsentEntry EXCEPT !.tag = "Removing", !.dependents = d] :
            d \in DepMaps(p)}
    \cup {[tag |-> "Installed", deps |-> f, dependents |-> d, main |-> m,
           errs |-> e] :
            f \in DepMaps(p), d \in DepMaps(p), m \in MainStatuses,
            e \in SUBSET (PackageIds \ {p})}
NoDb == [p \in PackageIds |-> AbsentEntry]
NoneHandled == [p \in PackageIds |-> "none"]
NoSnapshot == [set |-> FALSE, db |-> NoDb]

\* The reconciler has not been called and the database has no package.
ReconcilerIdle ==
  /\ rpc = "idle"
  /\ runs = 0
  /\ package_data = NoDb
  /\ tmp_dirs = {}
  /\ peek = NoDb
  /\ todo = <<>>
  /\ handled = NoneHandled
  /\ failed = {}
  /\ steps = {}
  /\ managers = FALSE
  /\ rres = NoRes
  /\ db_start = NoDb
  /\ db_first = NoSnapshot

\* The database and the data directory found at boot, after any crash.
ReconcilerInit ==
  /\ rpc = "idle"
  /\ runs = 0
  /\ package_data \in {db \in [PackageIds -> UNION {EntriesOf(p) : p \in PackageIds}] :
                         \A p \in PackageIds : db[p] \in EntriesOf(p)}
  /\ tmp_dirs \in SUBSET {p \in PackageIds : package_data[p].tag = "Installed"}
  /\ peek = NoDb
  /\ todo = <<>>
  /\ handled = NoneHandled
  /\ failed = {}
  /\ steps = {}
  /\ managers = FALSE
  /\ rres = NoRes
  /\ db_start = NoDb
  /\ db_first = NoSnapshot

\* The keys of package_data, in iteration order.
Keys(db) == SelectSeq(PkgOrder, LAMBDA p : db[p].tag # "Absent")

\* The new current_dependents of d: every package p with as_installed that
\* has d in its current_dependencies, mapped to p's info for d.
new_dependents(db, d) ==
  [p \in PackageIds |-> IF db[p].tag = "Installed" THEN db[p].deps[d] ELSE 0]
\* A rebuild that adds the back-references found and keeps the old ones.
rebuild_dependents_merging(db) ==
  [d \in PackageIds |->
     IF db[d].tag \in {"Installed", "Removing"}
     THEN [db[d] EXCEPT !.dependents =
             [p \in PackageIds |->
                IF new_dependents(db, d)[p] # 0 THEN new_dependents(db, d)[p]
                ELSE @[p]]]
     ELSE db[d]]
\* The first mutation: current_dependents of every Installed or Removing
\* entry is replaced by the map built from the forward edges.
rebuild_dependents(db) ==
  [d \in PackageIds |->
     IF db[d].tag \in {"Installed", "Removing"}
     THEN [db[d] EXCEPT !.dependents = new_dependents(db, d)]
     ELSE db[d]]

\* MainStatus::running
running(m) == m \in {"Starting", "Running"}
\* A reset that writes Stopped for a running service and Starting otherwise.
reset_status_swapped(m) == IF running(m) THEN "Stopped" ELSE "Starting"
\* The new main status: Starting if it was running, else Stopped.
reset_status(m) == IF running(m) THEN "Starting" ELSE "Stopped"
\* A reset that passes over the entries that are not Installed.
reset_fails_never(db) == FALSE
\* The second mutation: expect_as_installed_mut()? on every entry.
reset_fails(db) == \E p \in PackageIds : db[p].tag \notin {"Absent", "Installed"}
reset_main(db) ==
  [p \in PackageIds |->
     IF db[p].tag = "Installed"
     THEN [db[p] EXCEPT !.main = reset_status(@)]
     ELSE db[p]]

\* cleanup_failed and uninstall: the entry is removed from the database.
remove_entry(db, p) == [db EXCEPT ![p] = AbsentEntry]
\* compute_dependency_config_errs: the dependencies of p that the snapshot
\* does not hold as Installed.
compute_dependency_config_errs(db, p) ==
  {d \in PackageIds : db[p].deps[d] # 0 /\ db[d].tag # "Installed"}
recheck(db, snapshot) ==
  [p \in PackageIds |->
     IF snapshot[p].tag = "Installed" /\ db[p].tag = "Installed"
     THEN [db[p] EXCEPT !.errs = compute_dependency_config_errs(snapshot, p)]
     ELSE db[p]]

Next ==
  \/ Install
  \/ CreateCacheDir
  \/ CheckCache
  \/ DeleteCache
  \/ OpenDst
  \/ DownloadChunk
  \/ DownloadComplete
  \/ SeekParse
  \/ Validate
  \/ CheckEntry
  \/ UnpackManifest
  \/ CreatePublicDir
  \/ UnpackLicense
  \/ UnpackIcon
  \/ LoadImages
  \/ UnpackInstructions
  \/ BeginTx
  \/ PutInstalling
  \/ MainInstall
  \/ SavePool
  \/ InterfacesInstall
  \/ PutInstalled
  \/ BrokenGet
  \/ BrokenSave


\* ------------------------------------------------- cleanup_and_initialize
Return(r) ==
  /\ rpc' = "idle"
  /\ rres' = r
  /\ runs' = runs + 1
  /\ db_first' = IF r = Ok /\ ~db_first.set
                 THEN [set |-> TRUE, db |-> package_data']
                 ELSE db_first

\* The call of cleanup_and_initialize.
Reconcile ==
  /\ rpc = "idle"
  /\ runs < MaxRuns
  /\ rpc' = "rebuild"
  /\ db_start' = package_data
  /\ handled' = NoneHandled
  /\ failed' = {}
  /\ steps' = {}
  /\ rres' = NoRes
  /\ UNCHANGED <<runs, package_data, tmp_dirs, peek, todo, managers, db_first>>
  /\ UNCHANGED otherThanReconcile

\* The mutation that rebuilds current_dependents; v.de()? fails it.
Rebuild ==
  /\ rpc = "rebuild"
  /\ \E ok \in BOOLEAN :
       IF ok \/ \A p \in PackageIds : package_data[p].deps = NoDeps
       THEN /\ package_data' = rebuild_dependents(package_data)
            /\ rpc' = "peek"
            /\ steps' = steps \cup {"rebuild"}
            /\ UNCHANGED <<runs, rres, db_first>>
       ELSE /\ UNCHANGED <<package_data, steps>>
            /\ Return(Err("Deserialization", "current_dependencies"))
  /\ UNCHANGED <<tmp_dirs, peek, todo, handled, failed, managers, db_start>>
  /\ UNCHANGED otherThanReconcile

\* let peek = self.db.peek().await, and the entries the sweep iterates.
Peek ==
  /\ rpc = "peek"
  /\ peek' = package_data
  /\ todo' = Keys(package_data)
  /\ rpc' = "sweep"
  /\ UNCHANGED <<runs, package_data, tmp_dirs, handled, failed, steps,
                 managers, rres, db_start, db_first>>
  /\ UNCHANGED otherThanReconcile

\* The end of one iteration of the sweep.
Handled(p, how) ==
  /\ handled' = [handled EXCEPT ![p] = how]
  /\ todo' = Tail(todo)
  /\ rpc' = IF Tail(todo) = <<>> THEN "reset" ELSE "sweep"
  /\ steps' = IF Tail(todo) = <<>> THEN steps \cup {"sweep"} ELSE steps
  /\ UNCHANGED <<runs, rres, db_first>>
\* An error that leaves the function in the middle of the sweep.
Abort(p, how, e) ==
  /\ handled' = [handled EXCEPT ![p] = how]
  /\ failed' = failed \cup {p}
  /\ UNCHANGED <<package_data, tmp_dirs, todo, steps>>
  /\ Return(e)

\* Installing | Restoring | Updating => cleanup_failed; its error is logged.
CleanupFailed ==
  /\ rpc = "sweep"
  /\ todo # <<>>
  /\ peek[Head(todo)].tag \in Transitional
  /\ \E ok \in BOOLEAN :
       /\ package_data' = IF ok THEN remove_entry(package_data, Head(todo))
                          ELSE package_data
       /\ failed' = IF ok THEN failed ELSE failed \cup {Head(todo)}
  /\ Handled(Head(todo), "cleanup_failed")
  /\ UNCHANGED <<tmp_dirs, peek, managers, db_start>>
  /\ UNCHANGED otherThanReconcile

\* Removing => uninstall; acquire()? returns, the error of uninstall is
\* logged.
Uninstall ==
  /\ rpc = "sweep"
  /\ todo # <<>>
  /\ peek[Head(todo)].tag = "Removing"
  /\ \E outcome \in {"ok", "failed", "no_connection"} :
       IF outcome = "no_connection"
       THEN Abort(Head(todo), "none", Err("Database", "acquire"))
       ELSE /\ package_data' = IF outcome = "ok"
                               THEN remove_entry(package_data, Head(todo))
                               ELSE package_data
            /\ failed' = IF outcome = "ok" THEN failed
                         ELSE failed \cup {Head(todo)}
            /\ Handled(Head(todo), "uninstall")
            /\ UNCHANGED tmp_dirs
  /\ UNCHANGED <<peek, managers, db_start>>
  /\ UNCHANGED otherThanReconcile

\* Installed => the tmp directories of its volumes are removed;
\* remove_dir_all(..)? returns.
TmpPurge ==
  /\ rpc = "sweep"
  /\ todo # <<>>
  /\ peek[Head(todo)].tag = "Installed"
  /\ \E ok \in BOOLEAN :
       IF ok \/ Head(todo) \notin tmp_dirs
       THEN /\ tmp_dirs' = tmp_dirs \ {Head(todo)}
            /\ Handled(Head(todo), "tmp_purge")
            /\ UNCHANGED <<package_data, failed>>
       ELSE Abort(Head(todo), "tmp_purge", Err("Filesystem", "remove_dir_all"))
  /\ UNCHANGED <<peek, managers, db_start>>
  /\ UNCHANGED otherThanReconcile

\* The sweep of a database without packages.
SweepNothing ==
  /\ rpc = "sweep"
  /\ todo = <<>>
  /\ rpc' = "reset"
  /\ steps' = steps \cup {"sweep"}
  /\ UNCHANGED <<runs, package_data, tmp_dirs, peek, todo, handled, failed,
                 managers, rres, db_start, db_first>>
  /\ UNCHANGED otherThanReconcile

\* The mutation that resets the main status; its result is the new peek.
ResetMain ==
  /\ rpc = "reset"
  /\ IF reset_fails(package_data)
     THEN /\ UNCHANGED <<package_data, peek, steps>>
          /\ Return(Err("InvalidRequest", "expected installed"))
     ELSE /\ package_data' = reset_main(package_data)
          /\ peek' = reset_main(package_data)
          /\ steps' = steps \cup {"reset"}
          /\ rpc' = "init"
          /\ UNCHANGED <<runs, rres, db_first>>
  /\ UNCHANGED <<tmp_dirs, todo, handled, failed, managers, db_start>>
  /\ UNCHANGED otherThanReconcile

\* self.managers.init(self.clone(), peek.clone())
ManagersInit ==
  /\ rpc = "init"
  /\ managers' = TRUE
  /\ steps' = steps \cup {"init"}
  /\ rpc' = "recheck"
  /\ UNCHANGED <<runs, package_data, tmp_dirs, peek, todo, handled, failed,
                 rres, db_start, db_first>>
  /\ UNCHANGED otherThanReconcile

\* The dependency config errors of every installed package of peek are
\* computed, then written in one mutation; Ok(()).
Recheck ==
  /\ rpc = "recheck"
  /\ package_data' = recheck(package_data, peek)
  /\ steps' = steps \cup {"recheck"}
  /\ Return(Ok)
  /\ UNCHANGED <<tmp_dirs, peek, todo, handled, failed, managers, db_start>>
  /\ UNCHANGED otherThanReconcile

NextReconcile ==
  \/ Reconcile
  \/ Rebuild
  \/ Peek
  \/ CleanupFailed
  \/ Uninstall
  \/ TmpPurge
  \/ SweepNothing
  \/ ResetMain
  \/ ManagersInit
  \/ Recheck


\* ======================================================== the RpcContext
\* ------------------------------------------------------------------ bounds
MaxCalls == 3

\* The tasks that hold a clone of the context, and the request guids.
Tasks == {"t1", "t2"}
Guids == {"g1", "g2"}
Kinds == {"WebSocket", "Rest"}

\* An RpcContinuation: which continuation it is, its variant, and whether
\* its timeout has passed.
Cont(id, kind) == [id |-> id, kind |-> kind, timed_out |-> FALSE]
NoCont == [id |-> 0, kind |-> "None", timed_out |-> FALSE]
\* BTreeMap::new()
NoConts == [g \in Guids |-> NoCont]
\* RpcContinuation::is_timed_out
is_timed_out(c) == c.timed_out
\* The continuations of the map m that have timed out.
TimedOut(m) == {m[g].id : g \in {h \in Guids : m[h] # NoCont /\ is_timed_out(m[h])}}

\* A task: the call it is in or has made last, its position in it, the
\* arguments, the continuations its clean found timed out, and what the
\* call returned.
IdleTask ==
  [op |-> "none", pc |-> "idle", guid |-> "g1", handler |-> NoCont,
   stale |-> {}, ret |-> NoCont, res |-> "none"]

\* No task has called the context: the state RpcContext::init leaves.
ContextIdle ==
  /\ continuations = NoConts
  /\ calls = 0
  /\ tasks = [t \in Tasks |-> IdleTask]
  /\ handed = {}
  /\ is_closed = FALSE
  /\ store_closed = FALSE
  /\ ctx_managers = "running"
  /\ unstable = FALSE
ContextInit ==
  /\ continuations = NoConts
  /\ calls = 0
  /\ tasks = [t \in Tasks |-> IdleTask]
  /\ handed = {}
  /\ is_closed = FALSE
  /\ store_closed = FALSE
  /\ ctx_managers = "running"
  /\ unstable \in BOOLEAN

\* A sweep that removes nothing.
clean_nothing(m) == m
\* clean_continuations: every entry that is timed out is removed.
clean_continuations(m) ==
  [g \in Guids |-> IF m[g] # NoCont /\ is_timed_out(m[g]) THEN NoCont ELSE m[g]]

\* A lookup that leaves the entry in the map.
remove_keeps(m, g) == m
\* continuations.remove(guid)
remove(m, g) == [m EXCEPT ![g] = NoCont]

\* Deref for RpcContext: with the feature "unstable" a closed context
\* panics.
CanDeref == ~(unstable /\ is_closed)
\* The task can begin a call: shutdown(self) consumes its clone.
CanCall(t) ==
  /\ tasks[t].pc = "idle"
  /\ tasks[t].op \notin {"shutdown", "panic"}
  /\ calls < MaxCalls
  /\ CanDeref

\* add_continuation(guid, handler) up to the end of clean_continuations.
AddContinuation(t) ==
  /\ CanCall(t)
  /\ \E g \in Guids, k \in Kinds :
       tasks' = [tasks EXCEPT ![t] =
                   [op |-> "add", pc |-> "insert", guid |-> g,
                    handler |-> Cont(calls + 1, k),
                    stale |-> TimedOut(continuations),
                    ret |-> NoCont, res |-> "none"]]
  /\ continuations' = clean_continuations(continuations)
  /\ calls' = calls + 1
  /\ UNCHANGED <<handed, is_closed, store_closed, ctx_managers, unstable>>
  /\ UNCHANGED otherThanContext

\* self.rpc_stream_continuations.lock().await.insert(guid, handler)
Insert(t) ==
  /\ tasks[t].pc = "insert"
  /\ CanDeref
  /\ continuations' = [continuations EXCEPT ![tasks[t].guid] = tasks[t].handler]
  /\ tasks' = [tasks EXCEPT ![t].pc = "idle"]
  /\ UNCHANGED <<calls, handed, is_closed, store_closed, ctx_managers, unstable>>
  /\ UNCHANGED otherThanContext

\* The body of get_continuation_handler, under one lock: the entry is
\* removed and cont.into_handler() gives its handler to the caller.
TakeHandler(t, op, g) ==
  /\ continuations' = remove(continuations, g)
  /\ tasks' = [tasks EXCEPT ![t] =
                 [IdleTask EXCEPT !.op = op, !.guid = g,
                                  !.ret = continuations[g]]]
  /\ handed' = IF continuations[g] = NoCont THEN handed
               ELSE handed \cup {continuations[g].id}

\* get_continuation_handler(guid)
GetContinuationHandler(t) ==
  /\ CanCall(t)
  /\ \E g \in Guids : TakeHandler(t, "get", g)
  /\ calls' = calls + 1
  /\ UNCHANGED <<is_closed, store_closed, ctx_managers, unstable>>
  /\ UNCHANGED otherThanContext

\* Under one lock: the variant of the entry is looked at; drop(continuations).
CheckKind(t, op, kind) ==
  \E g \in Guids :
    tasks' = [tasks EXCEPT ![t] =
                [IdleTask EXCEPT
                   !.op = op, !.guid = g,
                   !.pc = IF continuations[g].kind = kind
                          THEN "take" ELSE "idle"]]

\* get_ws_continuation_handler(guid) up to drop(continuations)
GetWsContinuationHandler(t) ==
  /\ CanCall(t)
  /\ CheckKind(t, "get_ws", "WebSocket")
  /\ calls' = calls + 1
  /\ UNCHANGED <<continuations, handed, is_closed, store_closed, ctx_managers, unstable>>
  /\ UNCHANGED otherThanContext

\* get_rest_continuation_handler(guid) up to drop(continuations)
GetRestContinuationHandler(t) ==
  /\ CanCall(t)
  /\ CheckKind(t, "get_rest", "Rest")
  /\ calls' = calls + 1
  /\ UNCHANGED <<continuations, handed, is_closed, store_closed, ctx_managers, unstable>>
  /\ UNCHANGED otherThanContext

\* self.get_continuation_handler(guid).await after the drop.
Take(t) ==
  /\ tasks[t].pc = "take"
  /\ CanDeref
  /\ TakeHandler(t, tasks[t].op, tasks[t].guid)
  /\ UNCHANGED <<calls, is_closed, store_closed, ctx_managers, unstable>>
  /\ UNCHANGED otherThanContext

\* Time passes: the timeout of a continuation of the map is over.
Expire ==
  /\ \E g \in Guids :
       /\ continuations[g] # NoCont
       /\ ~continuations[g].timed_out
       /\ continuations' = [continuations EXCEPT ![g].timed_out = TRUE]
  /\ UNCHANGED <<calls, tasks, handed, is_closed, store_closed, ctx_managers, unstable>>
  /\ UNCHANGED otherThanContext

\* A shutdown that goes on when the managers could not be emptied.
ShutdownAnyway(t) ==
  /\ CanCall(t)
  /\ \E ok \in BOOLEAN :
       /\ tasks' = [tasks EXCEPT ![t] =
                      [IdleTask EXCEPT !.op = "shutdown", !.pc = "close"]]
       /\ ctx_managers' = IF ok THEN "empty" ELSE ctx_managers
  /\ calls' = calls + 1
  /\ UNCHANGED <<continuations, handed, is_closed, store_closed, unstable>>
  /\ UNCHANGED otherThanContext
\* shutdown(self): self.managers.empty().await?
Shutdown(t) ==
  /\ CanCall(t)
  /\ \E ok \in BOOLEAN :
       IF ok
       THEN /\ tasks' = [tasks EXCEPT ![t] =
                           [IdleTask EXCEPT !.op = "shutdown", !.pc = "close"]]
            /\ ctx_managers' = "empty"
       ELSE /\ tasks' = [tasks EXCEPT ![t] =
                           [IdleTask EXCEPT !.op = "shutdown", !.res = "err"]]
            /\ UNCHANGED ctx_managers
  /\ calls' = calls + 1
  /\ UNCHANGED <<continuations, handed, is_closed, store_closed, unstable>>
  /\ UNCHANGED otherThanContext

\* self.secret_store.close().await
ShutdownClose(t) ==
  /\ tasks[t].pc = "close"
  /\ CanDeref
  /\ store_closed' = TRUE
  /\ tasks' = [tasks EXCEPT ![t].pc = "flag"]
  /\ UNCHANGED <<continuations, calls, handed, is_closed, ctx_managers, unstable>>
  /\ UNCHANGED otherThanContext

\* self.is_closed.store(true, Ordering::SeqCst); Ok(())
ShutdownFlag(t) ==
  /\ tasks[t].pc = "flag"
  /\ CanDeref
  /\ is_closed' = TRUE
  /\ tasks' = [tasks EXCEPT ![t].pc = "idle", ![t].res = "ok"]
  /\ UNCHANGED <<continuations, calls, handed, store_closed, ctx_managers, unstable>>
  /\ UNCHANGED otherThanContext

\* deref of a closed context in a build with the feature "unstable".
DerefPanic(t) ==
  /\ ~CanDeref
  /\ tasks[t].op # "panic"
  /\ tasks[t].pc # "idle" \/ (tasks[t].op # "shutdown" /\ calls < MaxCalls)
  /\ tasks' = [tasks EXCEPT ![t].op = "panic", ![t].pc = "idle"]
  /\ calls' = IF tasks[t].pc = "idle" THEN calls + 1 ELSE calls
  /\ UNCHANGED <<continuations, handed, is_closed, store_closed, ctx_managers, unstable>>
  /\ UNCHANGED otherThanContext

NextContext ==
  \/ \E t \in Tasks : AddContinuation(t)
  \/ \E t \in Tasks : Insert(t)
  \/ \E t \in Tasks : GetContinuationHandler(t)
  \/ \E t \in Tasks : GetWsContinuationHandler(t)
  \/ \E t \in Tasks : GetRestContinuationHandler(t)
  \/ \E t \in Tasks : Take(t)
  \/ Expire
  \/ \E t \in Tasks : Shutdown(t)
  \/ \E t \in Tasks : ShutdownClose(t)
  \/ \E t \in Tasks : ShutdownFlag(t)
  \/ \E t \in Tasks : DerefPanic(t)

\* ============================================== two concurrent installs
\* The errors the pipeline of an install can end with.
PipelineErrs ==
  {Err("Network", "TimedOut"), Err("Database", "PackageDataEntry does not exist")}
\* An installer task: its position, `res` of the pipeline, its get_mut view
\* of broken_packages and the value the call returned.
IdleInstall == [pc |-> "idle", res |-> NoRes, mut |-> <<>>, result |-> NoRes]

\* No install has been called.
RaceIdle ==
  /\ race_tasks = [p \in PackageIds |-> IdleInstall]
  /\ race_broken = <<>>
  /\ race_lock = "none"
  /\ race_locking = FALSE
\* Whether get_mut keeps a write lock on the pointer in the handle until the
\* handle is dropped is decided by the database library.
RaceInit ==
  /\ race_tasks = [p \in PackageIds |-> IdleInstall]
  /\ race_broken = <<>>
  /\ race_lock = "none"
  /\ race_locking \in BOOLEAN

\* download_install_s9pk(ctx, p, ..) up to `res`: create_dir_all(..)? fails,
\* or the pipeline ends with an error, or with the panic of todo!().
RaceInstall(p) ==
  /\ race_tasks[p].pc = "idle"
  /\ \E outcome \in {Err("Io", "create_dir_all"), Panic} \cup PipelineErrs :
       race_tasks' = [race_tasks EXCEPT ![p] =
         IF outcome \in PipelineErrs
         THEN [IdleInstall EXCEPT !.pc = "broken_get", !.res = outcome]
         ELSE IF outcome = Panic
         THEN [IdleInstall EXCEPT !.pc = "done", !.res = Panic,
                                  !.result = Panic]
         ELSE [IdleInstall EXCEPT !.pc = "done", !.result = outcome]]
  /\ UNCHANGED <<race_broken, race_lock, race_locking>>
  /\ UNCHANGED otherThanRace

\* if let Err(e) = res { broken_packages().get_mut(&mut db).await?
RaceBrokenGet(p) ==
  /\ race_tasks[p].pc = "broken_get"
  /\ race_lock = "none"
  /\ \E ok \in BOOLEAN :
       IF ok
       THEN /\ race_tasks' = [race_tasks EXCEPT ![p].pc = "broken_save",
                                                ![p].mut = race_broken]
            /\ race_lock' = IF race_locking THEN p ELSE "none"
       ELSE /\ race_tasks' = [race_tasks EXCEPT
                                ![p].pc = "done",
                                ![p].result = Err("Database", "broken_packages get_mut")]
            /\ UNCHANGED race_lock
  /\ UNCHANGED <<race_broken, race_locking>>
  /\ UNCHANGED otherThanRace

\* broken.push(pkg_id.clone()); broken.save(&mut db).await?; Err(e); the
\* handle is dropped.
RaceBrokenSave(p) ==
  /\ race_tasks[p].pc = "broken_save"
  /\ \E ok \in BOOLEAN :
       IF ok
       THEN /\ race_broken' = Append(race_tasks[p].mut, p)
            /\ race_tasks' = [race_tasks EXCEPT
                                ![p].pc = "done",
                                ![p].mut = Append(@, p),
                                ![p].result = race_tasks[p].res]
       ELSE /\ race_tasks' = [race_tasks EXCEPT
                                ![p].pc = "done",
                                ![p].mut = Append(@, p),
                                ![p].result = Err("Database", "broken_packages save")]
            /\ UNCHANGED race_broken
  /\ race_lock' = "none"
  /\ UNCHANGED race_locking
  /\ UNCHANGED otherThanRace

NextRace ==
  \/ \E p \in PackageIds : RaceInstall(p)
  \/ \E p \in PackageIds : RaceBrokenGet(p)
  \/ \E p \in PackageIds : RaceBrokenSave(p)

\* ========================================================== health check
\* ------------------------------------------------------------------ bounds
MaxChecks == 4

\* Exit codes and messages of a failed health-check action.
ExitCodes == {-1, 0, 1, 2, 58, 59, 60, 255}
Messages == {"", "unhealthy", "starting"}
\* What self.0.execute(..).await gives: an error of the execution itself, or
\* the outcome of the action, Ok(()) or Err((code, message)).
ExecErr(kind) == [tag |-> "ExecErr", code |-> 0, text |-> kind]
ActionOk == [tag |-> "Ok", code |-> 0, text |-> ""]
ActionErr(code, msg) == [tag |-> "Err", code |-> code, text |-> msg]
Outcomes ==
  {ExecErr("Docker"), ExecErr("Filesystem"), ActionOk}
    \cup {ActionErr(c, m) : c \in ExitCodes, m \in Messages}
NoOutcome == [tag |-> "None", code |-> 0, text |-> ""]

\* The value of check: an error, or a HealthCheckResult with its variant
\* (and the error message of a Failure).
NoReturn == [status |-> "None", result |-> "None", error |-> ""]
HealthCheckResult(variant, error) == [status |-> "Ok", result |-> variant, error |-> error]
Propagated(kind) == [status |-> "Err", result |-> "None", error |-> kind]

\* A check without the arm for exit code 59.
check_without_disabled(out) ==
  CASE out.tag = "ExecErr" -> Propagated(out.text)
    [] out.tag = "Ok" -> HealthCheckResult("Success", "")
    [] OTHER -> HealthCheckResult("Failure", out.text)
\* HealthCheck::check
check(out) ==
  CASE out.tag = "ExecErr" -> Propagated(out.text)
    [] out.tag = "Ok" -> HealthCheckResult("Success", "")
    [] out.tag = "Err" /\ out.code = 59 -> HealthCheckResult("Disabled", "")
    [] OTHER -> HealthCheckResult("Failure", out.text)

\* No health check has run.
HealthIdle ==
  /\ health_checks = 0
  /\ health_res = NoOutcome
  /\ health_ret = NoReturn

\* One call of HealthCheck::check, whatever the action does.
HealthCheck ==
  /\ health_checks < MaxChecks
  /\ \E out \in Outcomes :
       /\ health_res' = out
       /\ health_ret' = check(out)
  /\ health_checks' = health_checks + 1
  /\ UNCHANGED otherThanHealth

NextHealth == HealthCheck

\* ---------------------------------------------------------- specifications
Init ==
  InstallerInit /\ ReconcilerIdle /\ ContextIdle /\ RaceIdle /\ HealthIdle
Spec == Init /\ [][Next]_vars

InitReconcile ==
  InstallerInit /\ ReconcilerInit /\ ContextIdle /\ RaceIdle /\ HealthIdle
SpecReconcile == InitReconcile /\ [][NextReconcile]_vars

InitContext ==
  InstallerInit /\ ReconcilerIdle /\ ContextInit /\ RaceIdle /\ HealthIdle
SpecContext == InitContext /\ [][NextContext]_vars

InitRace ==
  InstallerInit /\ ReconcilerIdle /\ ContextIdle /\ RaceInit /\ HealthIdle
SpecRace == InitRace /\ [][NextRace]_vars

InitHealth == Init
SpecHealth == InitHealth /\ [][NextHealth]_vars

\* ------------------------------------------------------------- properties
PhaseOrder ==
  <<"create_dir", "check_cache", "delete", "open_dst", "download",
    "seek_parse", "validate", "check_entry", "manifest", "public_dir",
    "license", "icon", "images", "instructions", "begin", "put_installing",
    "main_install", "save_pool", "interfaces", "put_installed">>
PhaseIndex ==
  [p \in Range(PhaseOrder) |->
     CHOOSE i \in 1 .. Len(PhaseOrder) : PhaseOrder[i] = p]
Idx(p) == PhaseIndex[p]
\* The pipeline of the current install has entered step p.
Reached(p) == phase # "idle" /\ Idx(phase) >= Idx(p)
Ended == pc = "done"
\* The call has ended and no phase of it failed.
EveryPhaseSucceeded == Ended /\ ~IsErr(res) /\ ~IsErr(result)
Broken == PKG \in Range(broken_packages)

\* C1: every run of download_install_s9pk that ends in failure, whichever
\* phase failed, leaves the package id in broken_packages.
C1_FailedInstallIsBroken == (Ended /\ IsErr(result)) => Broken

\* C2: a run in which every phase succeeds returns success with the committed
\* entry Installed.
C2_SuccessIsInstalled ==
  EveryPhaseSucceeded => (result = Ok /\ entry = "Installed")

\* C3: at the end of an install in which every phase succeeded, on the
\* download path and on the cache-hit path, validated, download_complete and
\* read_complete are all true.
C3_SuccessFlags ==
  EveryPhaseSucceeded =>
    /\ progress.validated = ArchiveLen
    /\ progress.download_complete
    /\ progress.read_complete

\* C4: after a cache hit no byte of the response body is read, the cache file
\* is neither deleted nor rewritten and downloaded stays 0 up to the end of the
\* install.
C4_CacheHitSkipsDownload ==
  cached = "hit" =>
    /\ body_read = 0
    /\ progress.downloaded = 0
    /\ cache = cache_at_start
    /\ pc \notin {"delete", "open_dst", "download", "seek_parse"}
C4_Witness ==
  /\ cached = "hit"
  /\ Ended
  /\ hdr # NoHeader
  /\ hash_str(cache) = hdr

\* C5: without an x-s9pk-hash header the probe is a miss whatever the cache
\* holds; the existing cache file is deleted and the archive is downloaded
\* again into a fresh file.
C5_NoHeaderForcesDownload ==
  hdr = NoHeader =>
    /\ cached # "hit"
    /\ (pc = "open_dst" => cache = NoFile)
    /\ (pc = "download" => cache = Prefix(src, body_read))
    /\ Reached("validate") =>
         /\ body_read = ArchiveLen
         /\ progress.downloaded = ArchiveLen
         /\ cache = Prefix(src, ArchiveLen)
C5_Witness ==
  /\ hdr = NoHeader
  /\ validate(cache_at_start)
  /\ phase = "validate"
  /\ cache = Prefix(src, ArchiveLen)

\* The cache file at the start of the install parses and declares a hash other
\* than the header of the response.
StaleCache ==
  /\ hdr # NoHeader
  /\ from_reader(cache_at_start)
  /\ hash_str(cache_at_start) # hdr

\* C6: a cache file whose header declares another hash than x-s9pk-hash is a
\* miss; it is deleted and replaced by the freshly downloaded archive, from
\* which the install proceeds.
C6_HashMismatchRedownloads ==
  (StaleCache /\ cached # "unset") =>
    /\ cached = "miss"
    /\ (pc = "open_dst" => cache = NoFile)
    /\ (pc = "download" => cache = Prefix(src, body_read))
    /\ Reached("validate") =>
         /\ body_read = ArchiveLen
         /\ progress.downloaded = ArchiveLen
         /\ cache = Prefix(src, ArchiveLen)
C6_Witness ==
  /\ StaleCache
  /\ validate(cache_at_start)
  /\ phase = "check_entry"
  /\ cache # cache_at_start

\* C7: a failure inside the cache probe (open or reader construction) does not
\* fail the install: the probe is a miss and the install goes on with the
\* replacement of the cache file and the download.
C7_ProbeFailureIsMiss ==
  probe_failure # "none" =>
    /\ cached = "miss"
    /\ pc = "delete"
    /\ res = NoRes
    /\ result = NoRes
C7_Witness ==
  /\ probe_failure = "open"
  /\ cache.exists
  /\ hash_str(cache) = hdr
  /\ pc = "delete"

\* C8: when a phase fails, the call returns the error of that phase, after
\* the package id was appended to broken_packages.
C8_OriginalErrorReturned ==
  (Ended /\ IsErr(res)) => (result = res /\ Broken)

\* C9: nothing of the attach transaction is visible in the database unless
\* it commits: once it has begun, the committed entry and IP pool are what
\* they were when it began, and after a failed install the entry is not
\* Installed.
C9_AttachAllOrNothing ==
  /\ tx_began => (entry = pre_tx.entry /\ ip_pool = pre_tx.ip_pool)
  /\ (Ended /\ IsErr(result)) => entry # "Installed"
C9_Witness ==
  /\ tx_began
  /\ Ended
  /\ res = Err("Network", "interfaces.install")
  /\ pool_mut # pre_tx.ip_pool

\* What follows a non-zero exit of the image loader, the error message apart.
LoaderFailureStops ==
  /\ res.kind = "Docker"
  /\ phase = "images"
  /\ pc \in {"broken_get", "broken_save", "done"}
  /\ "INSTRUCTIONS.md" \notin written
  /\ ~progress.read_complete
  /\ ~tx_began
  /\ entry # "Installed"

C11_PhasesInOrder ==
  /\ (cached = "unset") <=> ~Reached("delete")
  /\ progress.downloaded > 0 => cached = "miss"
  /\ progress.download_complete => (cached = "miss" /\ body_read = ArchiveLen)
  /\ (Reached("seek_parse") /\ cached = "miss") => progress.download_complete
  /\ progress.validated > 0 => Reached("check_entry")
  /\ Reached("check_entry") =>
       /\ validate(cache)
       /\ progress.validated = ArchiveLen
       /\ (cached = "hit" \/ progress.download_complete)
  /\ written # {} => (Reached("license") /\ "." \in written)
  /\ "LICENSE.md" \in written <=> Reached("icon")
  /\ "icon.png" \in written <=> Reached("images")
  /\ loader # "none" => (phase = "images" \/ loader = "ok")
  /\ (loader = "ok") <=> Reached("instructions")
  /\ "INSTRUCTIONS.md" \in written => Reached("begin")
  /\ progress.read_complete <=> Reached("begin")
  /\ tx_began <=> Reached("put_installing")
  /\ pool_mut # 0 <=> Reached("save_pool")
  /\ res # NoRes => pc \in {"broken_get", "broken_save", "done"}
  /\ result = Panic => phase = "put_installed"
C11_Witness ==
  /\ cached = "hit"
  /\ phase = "put_installed"
  /\ written = {".", "LICENSE.md", "icon.png", "INSTRUCTIONS.md"}

\* C12: validated <= read <= downloaded <= size in every reachable state.
C12_CounterOrder ==
  /\ progress.validated <= progress.read
  /\ progress.read <= progress.downloaded
  /\ progress.downloaded <= progress.size

\* C13: once a call has ended, also after a download that failed midway or a
\* validate() that failed, the cache file does not exist or its content hash
\* matches the hash its header declares.
C13_CacheFileMatches == Ended => (~cache.exists \/ validate(cache))

\* C14: broken_packages holds a package id at most once, and after a
\* reinstall in which every phase succeeded it does not hold the id.
C14_BrokenIsSet ==
  /\ Len(broken_packages) = Cardinality(Range(broken_packages))
  /\ EveryPhaseSucceeded => ~Broken

\* With the entry absent nothing is written or loaded, and once the entry
\* check is passed the install has failed with a Database error.
AbsentFailsEarly ==
  entry = "Absent" =>
    /\ written = {}
    /\ loader = "none"
    /\ ~tx_began
    /\ (Reached("check_entry") /\ pc # "check_entry") => res.kind = "Database"
    /\ Ended => IsErr(result)

PartialCache == cache_at_start.exists /\ cache_at_start.len < ArchiveLen

\* C25: a partial cache file left by an install that failed during download
\* does not block a later install with the same x-s9pk-hash header: the
\* probe of the later install is a miss, so that the file is replaced by a
\* fresh download, and validate() does not fail on the truncated file.
C25_PartialCacheReplaced ==
  (installs >= 2 /\ PartialCache /\ hdr # NoHeader /\ cached # "unset") =>
    /\ cached = "miss"
    /\ (Reached("check_entry") => validate(cache))
    /\ (phase = "validate" /\ IsErr(res)) => cache # cache_at_start

\* ------------------------------------------------ reconciliation claims
Returned == rpc = "idle" /\ runs > 0
\* One failure-free reconciliation of the database db.
Reconciled(db) ==
  recheck(reset_main(rebuild_dependents(db)), reset_main(rebuild_dependents(db)))

C17_FailureNeverAborts ==
  (Returned /\ failed # {}) =>
    /\ \A p \in PackageIds : db_start[p].tag # "Absent" => handled[p] # "none"
    /\ {"sweep", "reset", "init", "recheck"} \subseteq steps

\* The action the sweep owes an entry of the given lifecycle tag.
ActionFor(tag) ==
  CASE tag \in Transitional -> "cleanup_failed"
    [] tag = "Removing" -> "uninstall"
    [] tag = "Installed" -> "tmp_purge"
    [] OTHER -> "none"

\* C18: when cleanup_and_initialize returns successfully, every entry has
\* been acted on by its lifecycle tag (cleanup_failed, uninstall, tmp purge)
\* and no entry is left Installing, Updating, Restoring or Removing.
C18_NoTransitionalAfterSuccess ==
  (Returned /\ rres = Ok) =>
    \A p \in PackageIds :
      /\ handled[p] = ActionFor(db_start[p].tag)
      /\ package_data[p].tag \in {"Absent", "Installed"}
      /\ p \notin tmp_dirs
C18_Witness ==
  /\ Returned
  /\ rres = Ok
  /\ db_start["bitcoind"].tag = "Updating"
  /\ db_start["lnd"].tag = "Removing"
  /\ package_data = NoDb

\* C19: the main-status reset sets the main status of every Installed entry
\* to Starting when it was running and to Stopped otherwise, changes nothing
\* else, and does not fail because of entries that are not Installed.
C19_ResetSkipsOthers ==
  [][rpc = "reset" =>
       /\ rpc' = "init"
       /\ \A p \in PackageIds :
            package_data'[p] =
              IF package_data[p].tag = "Installed"
              THEN [package_data[p] EXCEPT
                      !.main = IF @ \in {"Starting", "Running"}
                               THEN "Starting" ELSE "Stopped"]
              ELSE package_data[p]]_vars

\* C20: the rebuild makes the current_dependents of every Installed or
\* Removing entry d exactly the installed packages p that list d in their
\* current_dependencies, each mapped to p's info for d, and changes nothing
\* else: not the forward edges, not the tags, not the other entries.
C20_RebuildFromForwardEdges ==
  [][(rpc = "rebuild" /\ rpc' = "peek") =>
       \A d \in PackageIds :
         /\ package_data'[d].tag = package_data[d].tag
         /\ package_data'[d].deps = package_data[d].deps
         /\ package_data'[d].main = package_data[d].main
         /\ package_data'[d].errs = package_data[d].errs
         /\ \A p \in PackageIds :
              package_data'[d].dependents[p] =
                IF package_data[d].tag \notin {"Installed", "Removing"}
                THEN package_data[d].dependents[p]
                ELSE IF package_data[p].tag = "Installed"
                     THEN package_data[p].deps[d]
                     ELSE 0]_vars
C20_Witness ==
  /\ rpc = "peek"
  /\ db_start["bitcoind"].tag = "Installed"
  /\ db_start["lnd"].tag = "Installed"
  /\ db_start["bitcoind"].deps["lnd"] = 2
  /\ db_start["lnd"].dependents["bitcoind"] = 0
  /\ db_start["lnd"].deps["bitcoind"] = 0
  /\ db_start["bitcoind"].dependents["lnd"] = 1
  /\ package_data["lnd"].dependents["bitcoind"] = 2
  /\ package_data["bitcoind"].dependents["lnd"] = 0

\* -------------------------------------------------- continuation claims
\* C21: every add_continuation removes the timed-out entries before it
\* inserts: its sweep removes exactly the entries that are timed out, and
\* its insert puts the handler under the guid and changes no other entry, so
\* that when it returns the map holds the handler and none of the entries
\* that were timed out when the add began.
C21_AddSweepsTimedOut ==
  [][\A t \in Tasks :
       /\ (tasks[t].pc = "idle" /\ tasks'[t].pc = "insert") =>
            \A g \in Guids :
              continuations'[g] =
                IF continuations[g].timed_out THEN NoCont ELSE continuations[g]
       /\ (tasks[t].pc = "insert" /\ tasks'[t].pc = "idle"
             /\ tasks'[t].op = "add") =>
            /\ continuations'[tasks[t].guid] = tasks[t].handler
            /\ \A g \in Guids \ {tasks[t].guid} :
                 continuations'[g] = continuations[g]
            /\ \A g \in Guids : continuations'[g].id \notin tasks[t].stale]_vars
C21_Witness ==
  \E t \in Tasks :
    /\ tasks[t].op = "add"
    /\ tasks[t].pc = "idle"
    /\ tasks[t].stale # {}
    /\ continuations[tasks[t].guid] = tasks[t].handler
    /\ \E g \in Guids \ {tasks[t].guid} :
         /\ continuations[g] # NoCont
         /\ ~continuations[g].timed_out
         /\ continuations[g].id < tasks[t].handler.id

\* The step gives a handler to task t.
Obtains(t) ==
  /\ tasks'[t] # tasks[t]
  /\ tasks'[t].op \in {"get", "get_ws", "get_rest"}
  /\ tasks'[t].pc = "idle"
  /\ tasks'[t].ret # NoCont

\* C22: a continuation is handed out at most once: a lookup that obtains a
\* handler obtains one that no lookup obtained before, and leaves the guid
\* absent from the map.
C22_HandedOutOnce ==
  [][\A t \in Tasks :
       Obtains(t) =>
         /\ tasks'[t].ret.id \notin handed
         /\ continuations'[tasks'[t].guid] = NoCont]_vars
C22_Witness ==
  \E t \in Tasks, u \in Tasks :
    /\ tasks[t].op = "get_ws"
    /\ tasks[t].pc = "idle"
    /\ tasks[t].ret # NoCont
    /\ tasks[u].op = "get_ws"
    /\ tasks[u].pc = "take"
    /\ tasks[u].guid = tasks[t].guid
    /\ continuations[tasks[t].guid] = NoCont

\* ------------------------------------------------------- shutdown claims
\* Task t has come back from a shutdown that returned Ok(()).
ShutDown(t) == tasks[t].op = "shutdown" /\ tasks[t].res = "ok"
\* Task t has closed the secret store in its shutdown.
ClosedStore(t) == ShutDown(t) \/ tasks[t].pc = "flag"

\* C23: the closed flag is false until a shutdown has set it, it is set
\* only with the managers emptied and the secret store closed, it is never
\* cleared, and a shutdown whose managers.empty() fails returns the error
\* without closing the secret store or setting the flag.
C23_ClosedFlag ==
  /\ [](is_closed => (store_closed /\ ctx_managers = "empty"))
  /\ [](is_closed <=> \E t \in Tasks : ShutDown(t))
  /\ [](store_closed => \E t \in Tasks : ClosedStore(t))
  /\ [][is_closed => is_closed']_vars
  /\ [][\A t \in Tasks :
          (tasks[t].res # "err" /\ tasks'[t].res = "err") =>
            /\ tasks'[t].pc = "idle"
            /\ UNCHANGED <<is_closed, store_closed, ctx_managers>>]_vars
C23_Witness ==
  \E t \in Tasks, u \in Tasks :
    /\ tasks[t].op = "shutdown"
    /\ tasks[t].res = "err"
    /\ ~store_closed
    /\ ~is_closed
    /\ tasks[u].pc = "close"

\* C24: get_ws_continuation_handler returns a handler only of a WebSocket
\* continuation and get_rest_continuation_handler only of a Rest
\* continuation, whatever the other tasks do between the look at the variant
\* and the removal of the entry.
C24_KindChecked ==
  \A t \in Tasks :
    /\ tasks[t].op = "get_ws" => tasks[t].ret.kind \in {"None", "WebSocket"}
    /\ tasks[t].op = "get_rest" => tasks[t].ret.kind \in {"None", "Rest"}

\* ----------------------------------------------- concurrent installs claim
\* C26: when the installs of two different packages have both failed and
\* returned, both package ids are in broken_packages.
C26_BothBroken ==
  (\A p \in PackageIds :
     race_tasks[p].pc = "done" /\ IsErr(race_tasks[p].result))
    => \A p \in PackageIds : p \in Range(race_broken)

\* ----------------------------------------------------- health check claim
\* C27: check gives Success when the action succeeds, Disabled when it
\* fails with exit code 59 whatever its message, Failure with the message
\* of the action for every other exit code, and the error and no result
\* when the action could not be executed.
C27_TriState ==
  health_checks > 0 =>
    /\ health_res.tag = "Ok" =>
         health_ret = [status |-> "Ok", result |-> "Success", error |-> ""]
    /\ (health_res.tag = "Err" /\ health_res.code = 59) =>
         health_ret = [status |-> "Ok", result |-> "Disabled", error |-> ""]
    /\ (health_res.tag = "Err" /\ health_res.code # 59) =>
         health_ret = [status |-> "Ok", result |-> "Failure",
                       error |-> health_res.text]
    /\ health_res.tag = "ExecErr" =>
         health_ret = [status |-> "Err", result |-> "None",
                       error |-> health_res.text]
C27_Witness ==
  /\ health_checks > 1
  /\ health_res = ActionErr(59, "unhealthy")
  /\ health_ret.result = "Disabled"

====
